---------------------------- MODULE Spec2Model ----------------------------
(***************************************************************************)
(* Kafka Connect K8s operator: the reconciliation engine (charm.py         *)
(* reconcile), the lock-granted restart callback (charm.py                 *)
(* _restart_callback), the upgrade handler (events/upgrade.py) and the     *)
(* cluster-wide Restart Lock that serializes the callbacks.                *)
(*                                                                         *)
(* Every unit runs its handlers one at a time, each to completion.  The    *)
(* restart callback is split at its blocking points (restart_worker, each  *)
(* health_check), so that the handlers of OTHER units interleave with it.  *)
(***************************************************************************)
EXTENDS Integers, Sequences, FiniteSets, TLC

\* ------------------------------------------------------------------ bounds
NUnits == 2                       \* size of the peer cluster

Units == 1..NUnits

\* worker property lines ("key=value") the configuration can hold
Props == {"a=1", "b=2"}

\* subject-alternative-name sets a unit can require / a certificate can carry
SanSets == {"san1", "san2"}

NoFile == <<>>                    \* the properties file does not exist yet
File(lines) == <<lines>>          \* a file holding these lines
NoCert == ""                      \* worker_unit.tls.certificate is empty

\* `for _ in range(4)` of the restart callback
HealthCheckAttempts == 4

\* stop_after_attempt(5) of Workload.active
ActiveAttempts == 5

\* status codes the Kubernetes API answers a patch with: ApiOk, or an
\* ApiError with one of the other codes
ApiOk == 200
Forbidden == 403
ApiCodes == {ApiOk, Forbidden, 404, 500}

\* the cause given for a denied patch (upgrade.py 125; the source quotes
\* the command: `juju trust` needed)
JujuTrustNeeded == "juju trust needed"

\* str(e) of an ApiError with that status code
ApiErrorText(code) ==
    CASE code = Forbidden -> "Forbidden"
      [] code = 404 -> "Not Found"
      [] OTHER -> "Internal Server Error"

\* outcomes of model.resources.fetch + load_plugin
FetchResults == {"ok", "RuntimeError", "NameError", "ModelError"}

VARIABLES
    should_restart,         \* [Units -> BOOLEAN]  worker_unit.should_restart
    properties,             \* desired property set: config_manager.properties
    worker_properties,      \* [Units -> NoFile or File(lines)] the file on disk
    tls_enabled,            \* context.peer_workers.tls_enabled
    certificate,            \* [Units -> NoCert or the SAN set of the cached cert]
    required_sans,          \* [Units -> SanSets] SANs the unit's identity needs
    plugin_path_initiated,  \* [Units -> BOOLEAN]  connect_manager.plugin_path_initiated
    renewal,                \* [Units -> BOOLEAN]  a certificate_expiring request of the
                            \* unit waits for its certificate-available
    lock,                   \* [Units -> IDLE/REQUESTED/HELD/RELEASING] Restart Lock
    pc,                     \* [Units -> position of the unit's restart callback]
    attempts,               \* [Units -> 0..4] health_check calls of the running callback
    restarts,               \* [Units -> Nat]  restart_worker calls of the running callback
    upgrade_stack,          \* DataUpgrade.upgrade_stack (<<>> when idle)
    partition,              \* rollingUpdate.partition of the StatefulSet
    last                    \* what the handler that ran last did

vars == <<should_restart, properties, worker_properties, tls_enabled,
          certificate, required_sans, plugin_path_initiated, renewal,
          lock, pc, attempts, restarts, upgrade_stack, partition, last>>

unitVars == <<should_restart, worker_properties, certificate,
              plugin_path_initiated, renewal>>
envVars == <<properties, tls_enabled, required_sans, upgrade_stack, partition>>
lockVars == <<lock, pc, attempts, restarts>>

\* ----------------------------------------------------------------- helpers
\* variant of read: a file that does not exist reads as the desired lines
read_MissingFileAsDesired(u) ==
    IF worker_properties[u] = NoFile THEN properties ELSE worker_properties[u][1]

\* Workload.read: [] when the file does not exist, its lines otherwise;
\* reconcile turns the list into a set.
read(u) == IF worker_properties[u] = NoFile THEN {} ELSE worker_properties[u][1]

\* variant of SymDiff: set(desired) - set(applied)
SymDiff_OneSided(D, A) == D \ A

\* set(desired) ^ set(applied)
SymDiff(D, A) == (D \ A) \cup (A \ D)

\* tls_manager.sans_change_detected: the SANs of the currently cached
\* certificate differ from the required ones (no certificate: nothing to compare)
sans_change_detected(u) ==
    /\ certificate[u] # NoCert
    /\ certificate[u] # required_sans[u]

idle == upgrade_stack = <<>>

\* The record of one handler run: the unit, the handler, what the unit's
\* context.ready answered, the calls it made in order, the diff reconcile
\* computed (NotEvaluated when it did not get there), whether the run
\* repeats the run right before it (same unit, same handler, same answers of
\* the environment, nothing in between), and what container.can_connect()
\* answered to a handler that asks.
NotEvaluated == {"not-evaluated"}

Log(u, h, rdy, eff, d) ==
    [unit |-> u, handler |-> h, ready |-> rdy, effects |-> eff, diff |-> d,
     again |-> FALSE, can_connect |-> TRUE, api |-> ApiOk, cause |-> ""]

Has(eff, e) == \E i \in 1..Len(eff) : eff[i] = e
Count(eff, e) == Cardinality({i \in 1..Len(eff) : eff[i] = e})


\* ------------------------------------------------------------------- Init
Init ==
    /\ should_restart = [u \in Units |-> FALSE]
    /\ properties \in (SUBSET Props) \ {{}}
    /\ worker_properties = [u \in Units |-> NoFile]
    /\ tls_enabled = FALSE
    /\ certificate = [u \in Units |-> NoCert]
    /\ required_sans = [u \in Units |-> "san1"]
    /\ plugin_path_initiated = [u \in Units |-> FALSE]
    /\ renewal = [u \in Units |-> FALSE]
    /\ lock = [u \in Units |-> "IDLE"]
    /\ pc = [u \in Units |-> "idle"]
    /\ attempts = [u \in Units |-> 0]
    /\ restarts = [u \in Units |-> 0]
    /\ upgrade_stack = <<>>
    /\ partition = 0
    /\ last = Log(0, "init", TRUE, <<>>, NotEvaluated)

\* -------------------------------------------------------------- reconcile
\* variant of PluginSteps: RuntimeError is not caught, the invocation ends
PluginSteps_RuntimeErrorAborts(u, res) ==
    (IF plugin_path_initiated[u] THEN <<>> ELSE <<"init_plugin_path">>)
    \o (CASE res = "ok" -> <<"load_plugin", "update_plugins", "update_clients_data">>
          [] res = "RuntimeError" -> <<"log_error">>
          [] OTHER -> <<"log_debug", "update_plugins", "update_clients_data">>)

\* charm.py 176-190: plugin path, plugin resource, client propagation.  `res`
\* is what resources.fetch / load_plugin did.
PluginSteps(u, res) ==
    (IF plugin_path_initiated[u] THEN <<>> ELSE <<"init_plugin_path">>)
    \o (CASE res = "ok" -> <<"load_plugin">>
          [] res = "RuntimeError" -> <<"log_error">>
          [] OTHER -> <<"log_debug">>)
    \o <<"update_plugins", "update_clients_data">>

\* charm.py 193: the guard of the SAN short-circuit
SansShortCircuit(u) == tls_enabled /\ sans_change_detected(u)

\* charm.py 205-206
diff(u) == SymDiff(properties, read(u))

\* variants of DriftStep: only lines missing from the file count as drift;
\* the flag is assigned the outcome of the comparison instead of only set
DriftStep_OneSided(u) == IF properties \ read(u) # {} THEN TRUE ELSE should_restart[u]
DriftStep_Assigned(u) == diff(u) # {}

\* variants of DriftStep: the diff is computed but the flag is not set;
\* the flag is set on every invocation
DriftStep_NeverSet(u) == should_restart[u]
DriftStep_AlwaysSet(u) == TRUE

\* charm.py 208-209 followed by the read of 211: should_restart after the
\* drift step
DriftStep(u) == IF diff(u) # {} THEN TRUE ELSE should_restart[u]

\* config_manager.configure(): the desired lines are written to the file
configure(u) == [worker_properties EXCEPT ![u] = File(properties)]

\* variant of acquire_lock: the event is emitted under a name nobody observes,
\* no request is queued
acquire_lock_Lost(u) == lock

\* variant of acquire_lock: run_with_lock is emitted instead of acquire_lock,
\* the unit takes the lock without waiting for the grant
acquire_lock_RunWithLock(u) == [lock EXCEPT ![u] = "HELD"]

\* on[restart].acquire_lock.emit(): the unit's request is queued
acquire_lock(u) == [lock EXCEPT ![u] = "REQUESTED"]

\* variant of ApplySteps: reconcile restarts the workload itself
ApplySteps_RestartsItself ==
    <<"enable_auth", "tls_configure", "config_configure", "workload_start">>

\* variant of ApplySteps: the lock is requested before anything is applied
ApplySteps_RequestsFirst ==
    <<"acquire_lock", "enable_auth", "tls_configure", "config_configure">>

\* charm.py 218-222
ApplySteps == <<"enable_auth", "tls_configure", "config_configure", "acquire_lock">>

\* the calls of one reconcile() in order
ReconcileSteps(u, res, rdy) ==
    PluginSteps(u, res)
    \o (IF SansShortCircuit(u)
        THEN <<"certificate_expiring", "clear_certificate">>
        ELSE (IF diff(u) # {} THEN <<"set_should_restart">> ELSE <<>>)
             \o (IF ~DriftStep(u) THEN <<>>
                 ELSE IF ~rdy THEN <<"set_status">>
                 ELSE ApplySteps))

\* variant of DriftAndApply: the readiness check is missing
DriftAndApply_IgnoresReady(u, rdy) ==
    /\ should_restart' = [should_restart EXCEPT ![u] = DriftStep(u)]
    /\ IF DriftStep(u)
       THEN /\ worker_properties' = configure(u)
            /\ lock' = acquire_lock(u)
       ELSE UNCHANGED <<worker_properties, lock>>

\* variant of DriftAndApply: apply and request only in the invocation that
\* detected the drift
DriftAndApply_OnlyOnDrift(u, rdy) ==
    /\ should_restart' = [should_restart EXCEPT ![u] = DriftStep(u)]
    /\ IF diff(u) # {} /\ rdy
       THEN /\ worker_properties' = configure(u)
            /\ lock' = acquire_lock(u)
       ELSE UNCHANGED <<worker_properties, lock>>

\* charm.py 205-222: drift detection, the restart precondition, apply, request
DriftAndApply(u, rdy) ==
    /\ should_restart' = [should_restart EXCEPT ![u] = DriftStep(u)]
    /\ IF DriftStep(u) /\ rdy
       THEN /\ worker_properties' = configure(u)
            /\ lock' = acquire_lock(u)
       ELSE UNCHANGED <<worker_properties, lock>>

\* variant of ShortCircuit: the `return` is missing, reconcile falls through
ShortCircuit_FallsThrough(u, rdy) == DriftAndApply(u, rdy)

\* variant of ShortCircuit: a restart is flagged along with the renewal
ShortCircuit_SetsFlag(u, rdy) ==
    /\ should_restart' = [should_restart EXCEPT ![u] = TRUE]
    /\ UNCHANGED <<worker_properties, lock>>

\* charm.py 203: `return` right after the renewal request
ShortCircuit(u, rdy) == UNCHANGED <<should_restart, worker_properties, lock>>

\* variant of certificate_expiring: the event is built but not emitted
certificate_expiring_NotEmitted(u) == renewal

\* charm.py 195-198: certificate_expiring.emit, the renewal request of the unit
certificate_expiring(u) == [renewal EXCEPT ![u] = TRUE]

\* variants of clear_certificate: the cached certificate is kept; the
\* certificate of every unit is emptied
clear_certificate_Keeps(u) == certificate
clear_certificate_EveryUnit(u) == [v \in Units |-> NoCert]

\* charm.py 199-201: worker_unit.update({CERT: ""})
clear_certificate(u) == [certificate EXCEPT ![u] = NoCert]

\* charm.py 171-222: what reconcile() leaves behind
reconcile(u, res, rdy) ==
    /\ plugin_path_initiated' = [plugin_path_initiated EXCEPT ![u] = TRUE]
    /\ IF SansShortCircuit(u)
       THEN /\ renewal' = certificate_expiring(u)
            /\ certificate' = clear_certificate(u)
            /\ ShortCircuit(u, rdy)
       ELSE /\ UNCHANGED <<certificate, renewal>>
            /\ DriftAndApply(u, rdy)

ReconcileDiff(u) == IF SansShortCircuit(u) THEN NotEvaluated ELSE diff(u)

\* A triggering event (config-changed, relation-changed, update-status ...)
\* whose handler calls reconcile().
Reconcile(u) ==
    /\ pc[u] = "idle"
    /\ \E res \in FetchResults, rdy \in BOOLEAN :
          /\ reconcile(u, res, rdy)
          /\ last' = [Log(u, "reconcile", rdy, ReconcileSteps(u, res, rdy),
                          ReconcileDiff(u))
                       EXCEPT !.again = /\ last.handler = "reconcile"
                                        /\ last.unit = u
                                        /\ last.ready = rdy]
    /\ UNCHANGED <<envVars, pc, attempts, restarts>>

\* ------------------------------------------------------- the Restart Lock
\* RollingOpsManager: the lock goes to one requester at a time.
Grant(u) ==
    /\ lock[u] = "REQUESTED"
    /\ pc[u] = "idle"
    /\ \A v \in Units : lock[v] # "HELD"
    /\ lock' = [lock EXCEPT ![u] = "HELD"]
    /\ pc' = [pc EXCEPT ![u] = "granted"]
    /\ last' = Log(u, "rollingops", TRUE, <<"grant">>, NotEvaluated)
    /\ UNCHANGED <<unitVars, envVars, attempts, restarts>>

\* RollingOpsManager: the callback is dispatched once more for a request that
\* was already served (a duplicate acquire_lock of the same drift).
DuplicateGrant(u) ==
    /\ lock[u] = "IDLE"
    /\ pc[u] = "idle"
    /\ \A v \in Units : lock[v] # "HELD"
    /\ lock' = [lock EXCEPT ![u] = "HELD"]
    /\ pc' = [pc EXCEPT ![u] = "granted"]
    /\ last' = Log(u, "rollingops", TRUE, <<"grant", "duplicate">>, NotEvaluated)
    /\ UNCHANGED <<unitVars, envVars, attempts, restarts>>

\* RollingOpsManager: after the callback returns, the holder releases.
release(u) == [lock EXCEPT ![u] = "RELEASING"]

\* RollingOpsManager: the released lock is cleared and can be granted again.
Clear(u) ==
    /\ lock[u] = "RELEASING"
    /\ lock' = [lock EXCEPT ![u] = "IDLE"]
    /\ last' = Log(u, "rollingops", TRUE, <<"clear">>, NotEvaluated)
    /\ UNCHANGED <<unitVars, envVars, pc, attempts, restarts>>

\* ------------------------------------------------------ _restart_callback
\* variants of Declines: the readiness check is left out; the flag is not
\* looked at
Declines_IgnoresReady(u, rdy) == ~should_restart[u]
Declines_IgnoresFlag(u, rdy) == ~rdy

\* charm.py 160: the callback declines to act
Declines(u, rdy) == ~rdy \/ ~should_restart[u]

\* variant of LoopEnds: `while True` instead of `for _ in range(4)`
LoopEnds_Unbounded(n, h) == h

\* charm.py 165-169: the loop is left after the n-th health check answered h
LoopEnds(n, h) == h \/ n >= HealthCheckAttempts

\* variants of AfterHealthCheck: the flag is cleared whatever the answer;
\* the flag is never cleared
AfterHealthCheck_AlwaysClears(u, h) == FALSE
AfterHealthCheck_NeverClears(u, h) == should_restart[u]

\* charm.py 167-168: should_restart after a health check answered h
AfterHealthCheck(u, h) == IF h THEN FALSE ELSE should_restart[u]

Repeat(n, e) == [i \in 1..n |-> e]

\* the calls of the running callback so far: restart_worker, the n-1 failed
\* health checks before this one, this one
CallbackSteps(u, n, h) ==
    Repeat(restarts[u], "restart_worker")
    \o Repeat(n - 1, "health_check:false")
    \o (IF h THEN <<"health_check:true", "clear_should_restart">>
             ELSE <<"health_check:false">>)
    \o (IF LoopEnds(n, h) THEN <<"return", "release">> ELSE <<>>)

\* charm.py 158-163: the lock was granted, the callback starts
RestartCallback(u) ==
    /\ pc[u] = "granted"
    /\ \E rdy \in BOOLEAN :
          IF Declines(u, rdy)
          THEN /\ pc' = [pc EXCEPT ![u] = "idle"]
               /\ lock' = release(u)
               /\ last' = Log(u, "_restart_callback", rdy,
                              <<"return", "release">>, NotEvaluated)
               /\ UNCHANGED <<attempts, restarts>>
          ELSE /\ restarts' = [restarts EXCEPT ![u] = @ + 1]
               /\ pc' = [pc EXCEPT ![u] = "polling"]
               /\ last' = Log(u, "_restart_callback", rdy,
                              <<"restart_worker">>, NotEvaluated)
               /\ UNCHANGED <<lock, attempts>>
    /\ UNCHANGED <<unitVars, envVars>>

\* charm.py 165-169: one iteration of the polling loop
HealthCheck(u) ==
    /\ pc[u] = "polling"
    /\ \E h \in BOOLEAN :
          LET n == attempts[u] + 1 IN
          /\ should_restart' = [should_restart EXCEPT ![u] = AfterHealthCheck(u, h)]
          /\ last' = Log(u, "_restart_callback", TRUE, CallbackSteps(u, n, h),
                         NotEvaluated)
          /\ IF LoopEnds(n, h)
             THEN /\ pc' = [pc EXCEPT ![u] = "idle"]
                  /\ lock' = release(u)
                  /\ attempts' = [attempts EXCEPT ![u] = 0]
                  /\ restarts' = [restarts EXCEPT ![u] = 0]
             ELSE /\ attempts' = [attempts EXCEPT ![u] = n]
                  /\ UNCHANGED <<pc, lock, restarts>>
    /\ UNCHANGED <<worker_properties, certificate, plugin_path_initiated, renewal,
                   envVars>>

\* ------------------------------------------------------------ the upgrade
\* the handler asked container.can_connect() and was answered cc
Asked(l, cc) == [l EXCEPT !.can_connect = cc]

\* variant of set_rolling_update_partition: only a denied patch is reported,
\* any other ApiError is swallowed
set_rolling_update_partition_OnlyForbidden(code) ==
    CASE code = ApiOk -> [patched |-> TRUE, raised |-> "", cause |-> ""]
      [] code = Forbidden -> [patched |-> FALSE, raised |-> "KubernetesClientError",
                              cause |-> JujuTrustNeeded]
      [] OTHER -> [patched |-> FALSE, raised |-> "", cause |-> ""]

\* upgrade.py 111-128: the patch of the StatefulSet answered with code
set_rolling_update_partition(code) ==
    IF code = ApiOk
    THEN [patched |-> TRUE, raised |-> "", cause |-> ""]
    ELSE [patched |-> FALSE, raised |-> "KubernetesClientError",
          cause |-> IF code = Forbidden THEN JujuTrustNeeded
                    ELSE ApiErrorText(code)]

\* variant of PreUpgradeCheckSteps: the health check is polled like the
\* restart callback polls it, and the check fails after the last attempt
PreUpgradeCheckSteps_Polls(h, code) ==
    IF ~h THEN Repeat(HealthCheckAttempts, "health_check:false")
               \o <<"raise ClusterNotReadyError: Cluster is not healthy">>
    ELSE <<"health_check:true">>
         \o (IF idle THEN <<"set_rolling_update_partition">> ELSE <<>>)

\* upgrade.py 95-101, also called by post_upgrade_check; h is health_check(),
\* code the answer of the Kubernetes API if it is asked
PreUpgradeCheckSteps(h, code) ==
    IF ~h THEN <<"health_check:false",
                 "raise ClusterNotReadyError: Cluster is not healthy">>
    ELSE <<"health_check:true">>
         \o (IF ~idle THEN <<>>
             ELSE <<"set_rolling_update_partition">>
                  \o (IF set_rolling_update_partition(code).raised = "" THEN <<>>
                      ELSE <<"raise KubernetesClientError">>))

\* the cause of the KubernetesClientError pre_upgrade_check ends in, if any
PreUpgradeCheckCause(h, code) ==
    IF h /\ idle THEN set_rolling_update_partition(code).cause ELSE ""

\* variants of pre_upgrade_check: the partition is patched before the health
\* check is made; the partition is patched during an upgrade as well
pre_upgrade_check_PatchesFirst(h, code) ==
    IF idle /\ set_rolling_update_partition(code).patched
    THEN Cardinality(Units) - 1 ELSE partition
pre_upgrade_check_IgnoresIdle(h, code) ==
    IF h /\ set_rolling_update_partition(code).patched
    THEN Cardinality(Units) - 1 ELSE partition

\* upgrade.py 95-101: the partition pre_upgrade_check leaves behind
pre_upgrade_check(h, code) ==
    IF h /\ idle /\ set_rolling_update_partition(code).patched
    THEN Cardinality(Units) - 1 ELSE partition

\* variant of UnitOutcome: the unit is marked completed whatever the check said
UnitOutcome_AlwaysCompleted(h) ==
    IF ~h THEN <<"log_cause", "set_unit_completed">> ELSE <<"set_unit_completed">>

\* upgrade.py 71-78
UnitOutcome(h) ==
    IF ~h THEN <<"log_cause", "set_unit_failed">> ELSE <<"set_unit_completed">>

\* upgrade.py 64-78: the calls of the handler once it proceeds
UpgradeSteps(u, res, rdy, h, code) ==
    <<"apply_backwards_compatibility_fixes">>
    \o ReconcileSteps(u, res, rdy)
    \o <<"workload_start">>
    \o PreUpgradeCheckSteps(h, code)
    \o UnitOutcome(h)

\* upgrade.py 53-78: the upgrade-charm handler
UpgradeCharm(u) ==
    /\ pc[u] = "idle"
    /\ \E cc \in BOOLEAN, rdy \in BOOLEAN :
          IF ~cc
          THEN /\ last' = Asked(Log(u, "upgrade_charm", TRUE, <<"defer">>,
                                    NotEvaluated), cc)
               /\ UNCHANGED <<unitVars, lock, partition>>
          ELSE IF ~rdy \/ idle
          THEN /\ last' = Log(u, "upgrade_charm", rdy, <<>>, NotEvaluated)
               /\ UNCHANGED <<unitVars, lock, partition>>
          ELSE \E res \in FetchResults, h \in BOOLEAN :
               \* the handler is past `self.idle`: a patch, were it made, would
               \* be answered ApiOk
               /\ reconcile(u, res, rdy)
               /\ partition' = pre_upgrade_check(h, ApiOk)
               /\ last' = Log(u, "upgrade_charm", rdy,
                              UpgradeSteps(u, res, rdy, h, ApiOk), ReconcileDiff(u))
    /\ UNCHANGED <<properties, tls_enabled, required_sans, upgrade_stack,
                   pc, attempts, restarts>>

\* ---------------------------------------------- install, start, remove
\* charm.py 126-130
InstallSteps(cc) == IF ~cc THEN <<"defer">> ELSE <<>>

\* variant of StartSteps: the container check is missing
StartSteps_NoContainerCheck(cc, rel) == IF ~rel THEN <<"set_status">> ELSE <<>>

\* charm.py 132-138; rel is whether the kafka-client relation exists
StartSteps(cc, rel) ==
    IF ~cc THEN <<"defer">>
    ELSE IF ~rel THEN <<"set_status">> ELSE <<>>

\* the install hook
Install(u) ==
    /\ pc[u] = "idle"
    /\ \E cc \in BOOLEAN :
          last' = Asked(Log(u, "install", TRUE, InstallSteps(cc), NotEvaluated), cc)
    /\ UNCHANGED <<unitVars, envVars, lockVars>>

\* the start hook and kafka-connect-pebble-ready
Start(u) ==
    /\ pc[u] = "idle"
    /\ \E cc \in BOOLEAN, rel \in BOOLEAN :
          last' = Asked(Log(u, "start", TRUE, StartSteps(cc, rel), NotEvaluated), cc)
    /\ UNCHANGED <<unitVars, envVars, lockVars>>

\* charm.py 140-142: the remove hook stops the workload
Remove(u) ==
    /\ pc[u] = "idle"
    /\ last' = Log(u, "remove", TRUE, <<"workload_stop">>, NotEvaluated)
    /\ UNCHANGED <<unitVars, envVars, lockVars>>

\* -------------------------------------------------------- the environment
EnvLog == Log(0, "env", TRUE, <<>>, NotEvaluated)

\* the charm configuration or the relation data the properties are rendered
\* from change
ConfigChanged ==
    /\ \E d \in (SUBSET Props) \ {{}, properties} : properties' = d
    /\ last' = EnvLog
    /\ UNCHANGED <<unitVars, lockVars, tls_enabled, required_sans, upgrade_stack,
                   partition>>

\* the certificates relation is established
EnableTls ==
    /\ ~tls_enabled
    /\ tls_enabled' = TRUE
    /\ last' = EnvLog
    /\ UNCHANGED <<unitVars, lockVars, properties, required_sans, upgrade_stack,
                   partition>>

\* the certificates relation is removed
DisableTls ==
    /\ tls_enabled
    /\ tls_enabled' = FALSE
    /\ certificate' = [u \in Units |-> NoCert]
    /\ renewal' = [u \in Units |-> FALSE]
    /\ last' = EnvLog
    /\ UNCHANGED <<should_restart, worker_properties, plugin_path_initiated,
                   lockVars, properties, required_sans, upgrade_stack, partition>>

\* certificate-available: the CA answers with a certificate for the SANs
\* the unit requires now
CertificateAvailable(u) ==
    /\ tls_enabled
    /\ certificate[u] = NoCert
    /\ certificate' = [certificate EXCEPT ![u] = required_sans[u]]
    /\ renewal' = [renewal EXCEPT ![u] = FALSE]
    /\ last' = EnvLog
    /\ UNCHANGED <<should_restart, worker_properties, plugin_path_initiated,
                   lockVars, envVars>>

\* the network identity of the unit changes
SansChanged(u) ==
    /\ \E s \in SanSets \ {required_sans[u]} :
          required_sans' = [required_sans EXCEPT ![u] = s]
    /\ last' = EnvLog
    /\ UNCHANGED <<unitVars, lockVars, properties, tls_enabled, upgrade_stack,
                   partition>>

\* the pre-upgrade-check action on the leader (unit 1): pre_upgrade_check()
\* runs, and when it passes the upgrade stack is built
StartUpgrade ==
    /\ idle
    /\ \E h \in BOOLEAN, code \in ApiCodes :
          /\ partition' = pre_upgrade_check(h, code)
          /\ upgrade_stack' = IF h /\ set_rolling_update_partition(code).patched
                              THEN [i \in 1..NUnits |-> i] ELSE upgrade_stack
          /\ last' = [Log(1, "pre_upgrade_check", TRUE,
                          PreUpgradeCheckSteps(h, code), NotEvaluated)
                      EXCEPT !.api = IF h THEN code ELSE ApiOk,
                             !.cause = PreUpgradeCheckCause(h, code)]
    /\ UNCHANGED <<unitVars, lockVars, properties, tls_enabled, required_sans>>

\* the unit on top of the stack completed: the partition is lowered to let
\* the next pod be replaced
LowerPartition ==
    /\ ~idle
    /\ partition > 0
    /\ partition' = partition - 1
    /\ last' = EnvLog
    /\ UNCHANGED <<unitVars, lockVars, properties, tls_enabled, required_sans,
                   upgrade_stack>>

\* the last unit of the stack completed: the rollout reached partition 0
FinishUpgrade ==
    /\ ~idle
    /\ upgrade_stack' = <<>>
    /\ partition' = 0
    /\ last' = EnvLog
    /\ UNCHANGED <<unitVars, lockVars, properties, tls_enabled, required_sans>>

\* ------------------------------------------------------- specifications
\* The cluster, deployed without a certificates relation and with a
\* configuration that stays as deployed: every unit runs its handlers, the
\* lock service serializes the restart callbacks, upgrades come and go.
Next ==
    \/ \E u \in Units : Reconcile(u)
    \/ \E u \in Units : Grant(u)
    \/ \E u \in Units : RestartCallback(u)
    \/ \E u \in Units : HealthCheck(u)
    \/ \E u \in Units : Clear(u)
    \/ \E u \in Units : UpgradeCharm(u)
    \/ StartUpgrade
    \/ FinishUpgrade

Spec == Init /\ [][Next]_vars

\* The cluster with a lock service that makes progress (weak fairness of the
\* grant and of the clearing of a released lock) and units whose dispatched
\* callback runs on (weak fairness of its steps).
Fairness ==
    \A u \in Units :
        /\ WF_vars(Grant(u))
        /\ WF_vars(Clear(u))
        /\ WF_vars(RestartCallback(u))
        /\ WF_vars(HealthCheck(u))

FairSpec == Spec /\ Fairness

\* The cluster with a lock service that serves every requester (strong
\* fairness of the grant), units whose dispatched callback runs on, and
\* triggers that keep coming (weak fairness of the events that call
\* reconcile).
RetryFairness ==
    \A u \in Units :
        /\ SF_vars(Grant(u))
        /\ WF_vars(Clear(u))
        /\ WF_vars(RestartCallback(u))
        /\ WF_vars(HealthCheck(u))
        /\ WF_vars(Reconcile(u))

RetrySpec == Spec /\ RetryFairness

\* One unit with everything that can happen to it: configuration changes
\* and TLS included.
NextUnit ==
    \/ Reconcile(1)
    \/ Grant(1)
    \/ RestartCallback(1)
    \/ HealthCheck(1)
    \/ Clear(1)
    \/ UpgradeCharm(1)
    \/ Install(1)
    \/ Start(1)
    \/ Remove(1)
    \/ CertificateAvailable(1)
    \/ SansChanged(1)
    \/ ConfigChanged
    \/ EnableTls
    \/ DisableTls
    \/ StartUpgrade
    \/ LowerPartition
    \/ FinishUpgrade

SpecUnit == Init /\ [][NextUnit]_vars

\* The cluster with a certificates relation: every unit runs its handlers
\* and has its own certificate, SANs and renewal request; the configuration
\* stays as deployed and no upgrade takes place.
NextOwn ==
    \/ \E u \in Units : Reconcile(u)
    \/ \E u \in Units : Grant(u)
    \/ \E u \in Units : RestartCallback(u)
    \/ \E u \in Units : HealthCheck(u)
    \/ \E u \in Units : Clear(u)
    \/ \E u \in Units : CertificateAvailable(u)
    \/ \E u \in Units : SansChanged(u)
    \/ EnableTls

SpecOwn == Init /\ [][NextOwn]_vars

\* One unit whose lock service may dispatch the callback for a request it
\* already served, under a configuration that changes.
NextRegrant ==
    \/ Reconcile(1)
    \/ Grant(1)
    \/ DuplicateGrant(1)
    \/ RestartCallback(1)
    \/ HealthCheck(1)
    \/ Clear(1)
    \/ ConfigChanged

SpecRegrant == Init /\ [][NextRegrant]_vars

\* ------------------------------------------------- the drift function alone
\* the lines a rendered or a persisted configuration is made of
DiffLines == Props \cup {"c=3"}

\* every desired set and, per unit, every persisted file (none, empty, any
\* set of lines)
InitDiff ==
    /\ should_restart = [u \in Units |-> FALSE]
    /\ properties \in SUBSET DiffLines
    /\ worker_properties \in
          [Units -> {NoFile} \cup {File(A) : A \in SUBSET DiffLines}]
    /\ tls_enabled = FALSE
    /\ certificate = [u \in Units |-> NoCert]
    /\ required_sans = [u \in Units |-> "san1"]
    /\ plugin_path_initiated = [u \in Units |-> FALSE]
    /\ renewal = [u \in Units |-> FALSE]
    /\ lock = [u \in Units |-> "IDLE"]
    /\ pc = [u \in Units |-> "idle"]
    /\ attempts = [u \in Units |-> 0]
    /\ restarts = [u \in Units |-> 0]
    /\ upgrade_stack = <<>>
    /\ partition = 0
    /\ last = Log(0, "init", TRUE, <<>>, NotEvaluated)

\* charm.py 205-206 applied to the desired set and the file of unit u
Diff(u) ==
    /\ last' = Log(u, "diff", TRUE, <<>>, SymDiff(properties, read(u)))
    /\ UNCHANGED <<unitVars, envVars, lockVars>>

\* the same with the arguments exchanged
DiffSwapped(u) ==
    /\ last' = Log(u, "diff_swapped", TRUE, <<>>, SymDiff(read(u), properties))
    /\ UNCHANGED <<unitVars, envVars, lockVars>>

\* the same with the desired set on both sides
DiffSelf(u) ==
    /\ last' = Log(u, "diff_self", TRUE, <<>>, SymDiff(properties, properties))
    /\ UNCHANGED <<unitVars, envVars, lockVars>>

NextDiff ==
    \/ \E u \in Units : Diff(u)
    \/ \E u \in Units : DiffSwapped(u)
    \/ \E u \in Units : DiffSelf(u)

SpecDiff == InitDiff /\ [][NextDiff]_vars

\* --------------------------------------------------- Workload.active alone
\* what one attempt finds: container.can_connect(), the service among
\* container.get_services(), get_service(...).is_running()
Observations == [installed : BOOLEAN, present : BOOLEAN, running : BOOLEAN]

\* workload.py 179-186
installed(o) == IF ~o.installed THEN FALSE ELSE TRUE

\* variant of attempt: the container is not asked whether it can connect
attempt_IgnoresInstalled(o) ==
    IF ~o.present THEN FALSE ELSE o.running

\* workload.py 115-122: the body of active(), one attempt
attempt(o) ==
    IF ~installed(o) THEN FALSE
    ELSE IF ~o.present THEN FALSE
    ELSE o.running

\* workload.py 112: retry_if_result(lambda result: result is False)
retry_if_result(r) == r = FALSE

\* workload.py 111: stop_after_attempt(5)
stop_after_attempt(n) == n >= ActiveAttempts

\* workload.py 113: retry_error_callback=lambda _: False
retry_error_callback == FALSE

\* an unfinished call of active() on unit u
Probing(u) == last.handler = "active" /\ last.unit = u /\ ~last.done

\* workload.py 108-122: one attempt of active(), of a new call or of the call
\* that is waiting for its next attempt; `obs` are the attempts so far,
\* `result` is what the finished call returns
ProbeAttempt(u) ==
    /\ \E o \in Observations :
          LET obs == Append(IF Probing(u) THEN last.obs ELSE <<>>, o)
              r == attempt(o)
          IN last' = [unit |-> u, handler |-> "active", obs |-> obs,
                      done |-> ~retry_if_result(r) \/ stop_after_attempt(Len(obs)),
                      result |-> IF ~retry_if_result(r) THEN r
                                 ELSE retry_error_callback]
    /\ UNCHANGED <<unitVars, envVars, lockVars>>

NextProbe == \E u \in Units : ProbeAttempt(u)

SpecProbe == Init /\ [][NextProbe]_vars

\* ------------------------------------------ Workload.set_environment alone
\* A string is the sequence of its characters.  An entry of the environment
\* file is one line: it holds no line break.
NL == "\n"
EnvChars == {"A", "="}
MaxLineLen == 3
MaxEnvLines == 2

SeqsUpTo(S, n) == UNION {[1..k -> S] : k \in 0..n}
EnvLines == SeqsUpTo(EnvChars, MaxLineLen)
\* the lists of up to n entries
EnvVars(n) == SeqsUpTo(EnvLines, n)

\* str.find: the position of the first c in s, 0 when there is none
find(s, c) ==
    IF \E i \in 1..Len(s) : s[i] = c
    THEN CHOOSE i \in 1..Len(s) : s[i] = c /\ \A j \in 1..(i - 1) : s[j] # c
    ELSE 0

\* str.split(c)
RECURSIVE split(_, _)
split(s, c) ==
    LET i == find(s, c)
    IN IF i = 0 THEN <<s>>
       ELSE <<SubSeq(s, 1, i - 1)>> \o split(SubSeq(s, i + 1, Len(s)), c)

\* str.split(c, maxsplit=1)
split_maxsplit1(s, c) ==
    LET i == find(s, c)
    IN IF i = 0 THEN <<s>>
       ELSE <<SubSeq(s, 1, i - 1), SubSeq(s, i + 1, Len(s))>>

\* sep.join(parts)
RECURSIVE join(_, _)
join(sep, parts) ==
    IF parts = <<>> THEN <<>>
    ELSE IF Len(parts) = 1 THEN parts[1]
    ELSE parts[1] \o sep \o join(sep, Tail(parts))

\* workload.py 70-78 on the environment file: [] when it does not exist,
\* f.read().split("\n") otherwise
read_env(file) == IF file = NoFile THEN <<>> ELSE split(file[1], NL)

\* a dict is the sequence of its items in insertion order; d[k] = v
setitem(d, k, v) ==
    IF \E i \in 1..Len(d) : d[i].key = k
    THEN [i \in 1..Len(d) |-> IF d[i].key = k THEN [key |-> k, value |-> v]
                                               ELSE d[i]]
    ELSE Append(d, [key |-> k, value |-> v])

\* workload.py 228-233: the loop of map_env over env, d the dict so far
RECURSIVE map_env_loop(_, _)
map_env_loop(env, d) ==
    IF env = <<>> THEN d
    ELSE LET var == Head(env)
             key == split_maxsplit1(var, "=")[1]
             value == join(<<>>, Tail(split_maxsplit1(var, "=")))
         IN map_env_loop(Tail(env), IF key # <<>> THEN setitem(d, key, value) ELSE d)

\* workload.py 224-234
map_env(env) == map_env_loop(env, <<>>)

\* variant of updated_env: the new variables replace the file
updated_env_Replaces(current, new) == new

\* workload.py 175: current_env | map_env(env_vars)
RECURSIVE updated_env(_, _)
updated_env(current, new) ==
    IF new = <<>> THEN current
    ELSE updated_env(setitem(current, Head(new).key, Head(new).value), Tail(new))

\* workload.py 176: f"{key}={value}"
format_item(item) == item.key \o <<"=">> \o item.value

\* workload.py 170-177: the file set_environment(env_vars) leaves behind
set_environment(file, env_vars) ==
    LET current_env == map_env(read_env(file))
        items == updated_env(current_env, map_env(env_vars))
        content == join(<<NL>>, [i \in 1..Len(items) |-> format_item(items[i])])
    IN File(content \o <<NL>>)

\* the environment file the workload starts with: none, or any lines, with
\* or without a line break after the last one
EnvFiles(n) ==
    {NoFile} \cup {File(join(<<NL>>, ls)) : ls \in EnvVars(n)}
             \cup {File(join(<<NL>>, ls) \o <<NL>>) : ls \in EnvVars(n)}

EnvLog0(h, b, v, a) == [unit |-> 1, handler |-> h, before |-> b, vars |-> v, after |-> a]

InitEnv ==
    /\ should_restart = [u \in Units |-> FALSE]
    /\ properties = Props
    /\ worker_properties = [u \in Units |-> NoFile]
    /\ tls_enabled = FALSE
    /\ certificate = [u \in Units |-> NoCert]
    /\ required_sans = [u \in Units |-> "san1"]
    /\ plugin_path_initiated = [u \in Units |-> FALSE]
    /\ renewal = [u \in Units |-> FALSE]
    /\ lock = [u \in Units |-> "IDLE"]
    /\ pc = [u \in Units |-> "idle"]
    /\ attempts = [u \in Units |-> 0]
    /\ restarts = [u \in Units |-> 0]
    /\ upgrade_stack = <<>>
    /\ partition = 0
    /\ \E f \in EnvFiles(MaxEnvLines) : last = EnvLog0("env_file", f, <<>>, f)

\* the call of set_environment on the file the workload starts with
SetEnvironment ==
    /\ last.handler = "env_file"
    /\ \E env_vars \in EnvVars(MaxEnvLines) :
          last' = EnvLog0("set_environment", last.after, env_vars,
                          set_environment(last.after, env_vars))
    /\ UNCHANGED <<unitVars, envVars, lockVars>>

\* the call right after, with the same variables
SetEnvironmentAgain ==
    /\ last.handler = "set_environment"
    /\ last' = EnvLog0("set_environment_again", last.after, last.vars,
                       set_environment(last.after, last.vars))
    /\ UNCHANGED <<unitVars, envVars, lockVars>>

NextEnv ==
    \/ SetEnvironment
    \/ SetEnvironmentAgain

SpecEnv == InitEnv /\ [][NextEnv]_vars

\* ================================================================ claims
IsCallback(l) == l.handler = "_restart_callback"
IsReconcile(l) == l.handler = "reconcile"
HealthChecks(l) ==
    Count(l.effects, "health_check:true") + Count(l.effects, "health_check:false")
Returned(l) ==
    /\ Len(l.effects) >= 2
    /\ SubSeq(l.effects, Len(l.effects) - 1, Len(l.effects)) = <<"return", "release">>
InCallback(u) == pc[u] # "idle"

\* C1: mutual exclusion.  At most one unit is in HELD, only a unit in HELD
\* executes its restart callback, hence no two units execute their callbacks
\* at the same time (a second unit enters HELD only after the holder's
\* callback returned and released).
C1_MutualExclusion ==
    /\ Cardinality({u \in Units : lock[u] = "HELD"}) <= 1
    /\ \A u \in Units : InCallback(u) => lock[u] = "HELD"
    /\ \A u, v \in Units : InCallback(u) /\ InCallback(v) => u = v

\* a unit is polling its health after restart_worker while another unit waits
\* for the lock
C1_Witness ==
    \E u, v \in Units :
        /\ u # v
        /\ lock[u] = "HELD" /\ pc[u] = "polling" /\ attempts[u] >= 1
        /\ lock[v] = "REQUESTED"

\* the handler that ran last (re)started the worker process of its unit
StartedWorker(l) ==
    \/ IsCallback(l) /\ l.effects = <<"restart_worker">>
    \/ Has(l.effects, "workload_start")

\* C2 as stated: whenever a handler of a unit (re)starts the worker process,
\* whether the restart callback or any other path such as the upgrade handler,
\* that unit holds the Restart Lock at that moment.
C2_RestartOnlyUnderLock ==
    StartedWorker(last) => lock[last.unit] = "HELD"

\* C2 amended: every (re)start of the worker other than the upgrade handler's
\* workload.start() is the restart callback's, made while the unit holds the
\* Restart Lock and no other unit executes its callback.
C2_CoordinatedRestartUnderLock ==
    (StartedWorker(last) /\ last.handler # "upgrade_charm")
    => /\ IsCallback(last)
       /\ lock[last.unit] = "HELD"
       /\ \A v \in Units \ {last.unit} : lock[v] # "HELD" /\ ~InCallback(v)

\* a unit restarts its worker under the lock while another unit waits for it
C2_Witness ==
    /\ IsCallback(last)
    /\ last.effects = <<"restart_worker">>
    /\ lock[last.unit] = "HELD"
    /\ \E v \in Units \ {last.unit} : lock[v] = "REQUESTED"

\* C3: the callback is bounded and returns on every path.  It calls
\* restart_worker at most once and health_check at most 4 times; while it polls
\* fewer than 4 checks are done; and after a successful check, after the 4th
\* check, and when it declines, it has returned and the lock is released.
C3_CallbackBounded ==
    /\ \A u \in Units :
          /\ restarts[u] <= 1
          /\ pc[u] = "polling" => attempts[u] < HealthCheckAttempts
    /\ IsCallback(last) =>
          /\ Count(last.effects, "restart_worker") <= 1
          /\ HealthChecks(last) <= HealthCheckAttempts
          /\ (\/ Has(last.effects, "health_check:true")
              \/ HealthChecks(last) = HealthCheckAttempts
              \/ ~Has(last.effects, "restart_worker"))
             => /\ Returned(last)
                /\ lock[last.unit] = "RELEASING"
                /\ pc[last.unit] = "idle"

\* the callback returned after four failed checks
C3_Witness ==
    /\ IsCallback(last)
    /\ HealthChecks(last) = HealthCheckAttempts
    /\ Returned(last)
    /\ lock[last.unit] = "RELEASING"

\* C4: exhausted retries.  After restart_worker and 4 failed health checks the
\* callback returns normally, the lock is released and should_restart is
\* still true.
C4_ExhaustedKeepsFlag ==
    (IsCallback(last) /\ Count(last.effects, "health_check:false") = HealthCheckAttempts)
    => /\ last.effects = <<"restart_worker", "health_check:false", "health_check:false",
                           "health_check:false", "health_check:false", "return", "release">>
       /\ lock[last.unit] = "RELEASING"
       /\ pc[last.unit] = "idle"
       /\ should_restart[last.unit]

C4_Witness ==
    /\ IsCallback(last)
    /\ Count(last.effects, "health_check:false") = HealthCheckAttempts
    /\ should_restart[last.unit]
    /\ lock[last.unit] = "RELEASING"

\* C5: success.  When health check k (1 <= k <= 4) answers true, the callback
\* clears should_restart, checks no more, returns, and the lock is released
\* with should_restart false.
C5_SuccessClearsFlag ==
    (IsCallback(last) /\ Has(last.effects, "health_check:true"))
    => \E k \in 1..HealthCheckAttempts :
          /\ last.effects = <<"restart_worker">> \o Repeat(k - 1, "health_check:false")
                            \o <<"health_check:true", "clear_should_restart",
                                 "return", "release">>
          /\ ~should_restart[last.unit]
          /\ lock[last.unit] = "RELEASING"
          /\ pc[last.unit] = "idle"

\* the third health check succeeded
C5_Witness ==
    /\ IsCallback(last)
    /\ last.effects = <<"restart_worker", "health_check:false", "health_check:false",
                        "health_check:true", "clear_should_restart", "return", "release">>
    /\ ~should_restart[last.unit]
    /\ lock[last.unit] = "RELEASING"

\* C6: a callback that fires while the context is not ready is a no-op: no
\* restart_worker, no health check, should_restart unchanged; it only returns.
C6_NotReadyNoOp ==
    [][(IsCallback(last') /\ ~last'.ready)
       => /\ last'.effects = <<"return", "release">>
          /\ should_restart' = should_restart
          /\ restarts' = restarts
          /\ attempts' = attempts
          /\ pc'[last'.unit] = "idle"]_vars

\* the callback declined although a restart was pending
C6_Witness ==
    /\ IsCallback(last)
    /\ ~last.ready
    /\ last.effects = <<"return", "release">>
    /\ should_restart[last.unit]

\* a reconcile of unit u just emitted acquire_lock
EmittedAcquire(u) ==
    /\ last.unit = u
    /\ last.handler \in {"reconcile", "upgrade_charm"}
    /\ Has(last.effects, "acquire_lock")

RanReconcile(l) == Has(l.effects, "update_clients_data")

AppliedSomething(l) ==
    \/ Has(l.effects, "enable_auth")
    \/ Has(l.effects, "tls_configure")
    \/ Has(l.effects, "config_configure")

\* C8: drift detection.  A reconcile that reaches the drift step with a
\* non-empty symmetric difference of the desired lines and the lines of the
\* file leaves should_restart true (and the diff it computed is that
\* difference).
C8_DriftSetsFlag ==
    [][\A u \in Units :
          (/\ RanReconcile(last') /\ last'.unit = u
           /\ ~Has(last'.effects, "certificate_expiring")
           /\ SymDiff(properties, read(u)) # {})
          => /\ should_restart'[u]
             /\ last'.diff = SymDiff(properties, read(u))]_vars

\* desired {a=1, b=2}, applied {a=1}: diff {b=2}, should_restart true
C8_Witness ==
    /\ IsReconcile(last)
    /\ properties = {"a=1", "b=2"}
    /\ read(last.unit) = {"a=1"}
    /\ last.diff = {"b=2"}
    /\ should_restart[last.unit]

\* C9: SAN short-circuit.  With TLS enabled and a SAN change detected, one
\* reconcile emits exactly one certificate-expiring request, clears the cached
\* certificate and returns: no drift evaluation, should_restart, the
\* properties file and the lock untouched, nothing applied, no acquire_lock.
C9_SanShortCircuit ==
    [][\A u \in Units :
          (/\ IsReconcile(last') /\ last'.unit = u
           /\ tls_enabled
           /\ certificate[u] # NoCert /\ certificate[u] # required_sans[u])
          => /\ Count(last'.effects, "certificate_expiring") = 1
             /\ certificate'[u] = NoCert
             /\ last'.diff = NotEvaluated
             /\ ~Has(last'.effects, "set_should_restart")
             /\ ~AppliedSomething(last')
             /\ ~Has(last'.effects, "acquire_lock")
             /\ should_restart' = should_restart
             /\ worker_properties' = worker_properties
             /\ lock' = lock]_vars

\* the short-circuit was taken although the file drifted from the desired lines
C9_Witness ==
    /\ IsReconcile(last)
    /\ Has(last.effects, "certificate_expiring")
    /\ tls_enabled
    /\ certificate[last.unit] = NoCert
    /\ SymDiff(properties, read(last.unit)) # {}
    /\ ~should_restart[last.unit]

\* C10 as stated: the second of two reconciles in succession applies nothing
\* again and emits no second acquire_lock.
C10_NoReapply ==
    (IsReconcile(last) /\ last.again)
    => ~AppliedSomething(last) /\ ~Has(last.effects, "acquire_lock")

\* C10 amended: the second of two reconciles in succession, the first of which
\* got past the SAN check, leaves should_restart, the properties file, the
\* cached certificate, the plugin path and the lock request as the first one
\* left them.
C10_StateIdempotent ==
    [][(/\ IsReconcile(last) /\ last.diff # NotEvaluated
        /\ IsReconcile(last') /\ last'.again)
       => /\ should_restart' = should_restart
          /\ worker_properties' = worker_properties
          /\ certificate' = certificate
          /\ plugin_path_initiated' = plugin_path_initiated
          /\ lock' = lock]_vars

\* a repeated reconcile applied and requested the lock again
C10_Witness ==
    /\ IsReconcile(last)
    /\ last.again
    /\ AppliedSomething(last)
    /\ Has(last.effects, "acquire_lock")
    /\ lock[last.unit] = "REQUESTED"

\* C11 as stated: after any reconcile that returns with should_restart false,
\* the lines of the properties file are exactly the desired lines.
C11_SnapshotAfterAnyReconcile ==
    (RanReconcile(last) /\ ~should_restart[last.unit])
    => SymDiff(properties, read(last.unit)) = {}

\* C11 amended: after a reconcile that got past the SAN check and returns with
\* should_restart false, the lines of the properties file are exactly the
\* desired lines (their symmetric difference is empty).
C11_SnapshotPastSanCheck ==
    (RanReconcile(last) /\ last.diff # NotEvaluated /\ ~should_restart[last.unit])
    => /\ SymDiff(properties, read(last.unit)) = {}
       /\ read(last.unit) = properties

\* a reconcile found the written file equal to the desired two lines, nothing
\* pending
C11_Witness ==
    /\ IsReconcile(last)
    /\ last.diff = {}
    /\ ~should_restart[last.unit]
    /\ properties = {"a=1", "b=2"}
    /\ worker_properties[last.unit] = File(properties)

\* C12: restart precondition.  A reconcile that finds should_restart true at
\* the precondition check (set before, or set by its own drift step) while
\* the context is not ready records the context status and returns:
\* should_restart stays true, nothing is applied, no acquire_lock is emitted,
\* the properties file and the lock are as before.
C12_NotReadyKeepsFlag ==
    [][\A u \in Units :
          (/\ RanReconcile(last') /\ last'.unit = u
           /\ ~(tls_enabled /\ certificate[u] # NoCert
                            /\ certificate[u] # required_sans[u])
           /\ ~last'.ready
           /\ (should_restart[u] \/ SymDiff(properties, read(u)) # {}))
          => /\ Count(last'.effects, "set_status") = 1
             /\ last'.effects[Len(last'.effects)] = "set_status"
             /\ should_restart'[u]
             /\ ~AppliedSomething(last')
             /\ ~Has(last'.effects, "acquire_lock")
             /\ worker_properties' = worker_properties
             /\ lock' = lock
             /\ certificate' = certificate]_vars

\* a reconcile detected drift while the context was not ready: the flag is set,
\* the file was not written, the lock was not requested
C12_Witness ==
    /\ IsReconcile(last)
    /\ ~last.ready
    /\ Has(last.effects, "set_should_restart")
    /\ Has(last.effects, "set_status")
    /\ should_restart[last.unit]
    /\ worker_properties[last.unit] = NoFile
    /\ lock[last.unit] = "IDLE"

\* C13: no drift, no-op.  A reconcile past the SAN check that finds the file
\* equal to the desired lines and should_restart false leaves should_restart
\* false, applies nothing, emits no acquire_lock and leaves the file and the
\* lock alone; and whenever acquire_lock is emitted, should_restart is true.
C13_NoDriftNoOp ==
    [][/\ \A u \in Units :
             (/\ RanReconcile(last') /\ last'.unit = u
              /\ ~(tls_enabled /\ certificate[u] # NoCert
                               /\ certificate[u] # required_sans[u])
              /\ SymDiff(properties, read(u)) = {}
              /\ ~should_restart[u])
             => /\ ~should_restart'[u]
                /\ ~AppliedSomething(last')
                /\ ~Has(last'.effects, "acquire_lock")
                /\ ~Has(last'.effects, "set_status")
                /\ worker_properties' = worker_properties
                /\ lock' = lock
       /\ Has(last'.effects, "acquire_lock") => should_restart'[last'.unit]]_vars

\* a reconcile on a unit whose file is up to date and whose lock is idle did
\* nothing beyond the plugin and client propagation
C13_Witness ==
    /\ IsReconcile(last)
    /\ last.diff = {}
    /\ ~should_restart[last.unit]
    /\ worker_properties[last.unit] # NoFile
    /\ lock[last.unit] = "IDLE"
    /\ last.effects = <<"load_plugin", "update_plugins", "update_clients_data">>

\* C14: apply before request.  Every acquire_lock of an invocation comes right
\* after enable_auth, tls_configure, config_configure of the same invocation,
\* in that order, each made once; an invocation that applied anything applied
\* all three and requested the lock; and the request sees the file written.
C14_ApplyBeforeRequest ==
    /\ \A i \in 1..Len(last.effects) :
          last.effects[i] = "acquire_lock"
          => /\ i >= 4
             /\ last.effects[i - 3] = "enable_auth"
             /\ last.effects[i - 2] = "tls_configure"
             /\ last.effects[i - 1] = "config_configure"
    /\ \A e \in {"enable_auth", "tls_configure", "config_configure", "acquire_lock"} :
          /\ Count(last.effects, e) <= 1
          /\ AppliedSomething(last) => Has(last.effects, e)
    /\ Has(last.effects, "acquire_lock") => read(last.unit) = properties

\* drift was detected and applied in order, then the lock was requested
C14_Witness ==
    /\ IsReconcile(last)
    /\ last.effects = <<"init_plugin_path", "load_plugin", "update_plugins",
                        "update_clients_data", "set_should_restart",
                        "enable_auth", "tls_configure", "config_configure",
                        "acquire_lock">>
    /\ lock[last.unit] = "REQUESTED"
    /\ read(last.unit) = properties

\* the handler that ran last called reconcile() and the plugin resource
\* could not be fetched or loaded
PluginFailed(l) ==
    /\ l.handler \in {"reconcile", "upgrade_charm"}
    /\ Has(l.effects, "log_error") \/ Has(l.effects, "log_debug")

\* C15: plugin resource failures are not fatal.  When fetch/load_plugin raises
\* RuntimeError (logged as error) or NameError/ModelError (logged as debug),
\* no plugin is loaded and reconcile goes on: update_plugins and
\* update_clients_data follow the log entry, then the SAN check, the drift
\* step, the precondition check, apply and acquire_lock act as they do on
\* any invocation.
C15_PluginFailureNotFatal ==
    [][\A u \in Units :
          (PluginFailed(last') /\ last'.unit = u)
          => /\ ~Has(last'.effects, "load_plugin")
             /\ \E i \in 1..(Len(last'.effects) - 2) :
                   /\ last'.effects[i] \in {"log_error", "log_debug"}
                   /\ last'.effects[i + 1] = "update_plugins"
                   /\ last'.effects[i + 2] = "update_clients_data"
             /\ plugin_path_initiated'[u]
             /\ IF tls_enabled /\ certificate[u] # NoCert
                               /\ certificate[u] # required_sans[u]
                THEN /\ Has(last'.effects, "certificate_expiring")
                     /\ certificate'[u] = NoCert
                ELSE /\ last'.diff = SymDiff(properties, read(u))
                     /\ should_restart'[u]
                        = (should_restart[u] \/ SymDiff(properties, read(u)) # {})
                     /\ (should_restart'[u] /\ last'.ready)
                        => /\ Has(last'.effects, "acquire_lock")
                           /\ worker_properties'[u] = File(properties)
                           /\ lock'[u] = "REQUESTED"
                     /\ (should_restart'[u] /\ ~last'.ready)
                        => Has(last'.effects, "set_status")]_vars

\* the resource is not declared in the charm build; reconcile logged the
\* error, detected the drift, wrote the file and requested the lock
C15_Witness ==
    /\ IsReconcile(last)
    /\ Has(last.effects, "log_error")
    /\ Has(last.effects, "update_clients_data")
    /\ Has(last.effects, "acquire_lock")
    /\ worker_properties[last.unit] = File(properties)
    /\ lock[last.unit] = "REQUESTED"

RaisedNotReady(l) ==
    Has(l.effects, "raise ClusterNotReadyError: Cluster is not healthy")

\* C16: pre-upgrade check failure.  When pre_upgrade_check (called by the
\* pre-upgrade-check action with the upgrade idle, or by post_upgrade_check
\* with the upgrade in progress) gets false from the health check, it raises
\* ClusterNotReadyError with cause "Cluster is not healthy" and the
\* rolling-update partition is not patched.
C16_PreCheckFailureNoMutation ==
    [][(/\ last'.handler \in {"pre_upgrade_check", "upgrade_charm"}
        /\ Has(last'.effects, "health_check:false"))
       => /\ RaisedNotReady(last')
          /\ ~Has(last'.effects, "set_rolling_update_partition")
          /\ partition' = partition
          /\ upgrade_stack' = upgrade_stack]_vars

\* the pre-upgrade-check action failed on an unhealthy cluster with no upgrade
\* in progress: the partition is still 0
C16_Witness ==
    /\ last.handler = "pre_upgrade_check"
    /\ Has(last.effects, "health_check:false")
    /\ RaisedNotReady(last)
    /\ idle
    /\ partition = 0

\* the upgrade handler got past its guards
Proceeded(l) ==
    /\ l.handler = "upgrade_charm"
    /\ l.can_connect
    /\ l.ready
    /\ ~idle

\* the positions of call e in the calls of l
Pos(l, e) == {i \in 1..Len(l.effects) : l.effects[i] = e}

\* C17: upgrade rollout of a unit.  When the upgrade handler proceeds it
\* calls reconcile(), then workload.start(), then the post-upgrade check, and
\* last records one outcome: set_unit_failed if the check raised
\* ClusterNotReadyError, set_unit_completed otherwise, never both.
C17_UpgradeRollout ==
    Proceeded(last)
    => /\ Cardinality(Pos(last, "update_clients_data")) = 1
       /\ Cardinality(Pos(last, "workload_start")) = 1
       /\ \A r \in Pos(last, "update_clients_data"), w \in Pos(last, "workload_start") :
             /\ r < w
             /\ last.effects[w + 1] \in {"health_check:true", "health_check:false"}
             /\ \A i \in (r + 1)..(w - 1) :
                   last.effects[i] \notin {"health_check:true", "health_check:false"}
       /\ Count(last.effects, "set_unit_failed")
          + Count(last.effects, "set_unit_completed") = 1
       /\ last.effects[Len(last.effects)]
          = (IF RaisedNotReady(last) THEN "set_unit_failed" ELSE "set_unit_completed")

\* the post-upgrade check failed after reconcile and the start of the workload:
\* the unit is marked failed
C17_Witness ==
    /\ Proceeded(last)
    /\ RanReconcile(last)
    /\ Has(last.effects, "workload_start")
    /\ RaisedNotReady(last)
    /\ last.effects[Len(last.effects)] = "set_unit_failed"

\* C18 as stated: the upgrade handler marks the unit failed only after 4
\* unsuccessful health checks.
C18_FailedAfterAllAttempts ==
    (last.handler = "upgrade_charm" /\ Has(last.effects, "set_unit_failed"))
    => Count(last.effects, "health_check:false") = HealthCheckAttempts

\* C18 amended: the upgrade handler that proceeds calls the health check once
\* after the start of the workload and marks the unit failed exactly when
\* that call answers false; the handler that finds the context not ready
\* returns without deferring the event and without doing anything.
C18_SinglePostCheck ==
    [][(last'.handler = "upgrade_charm")
       => /\ Proceeded(last')
             => /\ HealthChecks(last') = 1
                /\ Has(last'.effects, "set_unit_failed")
                   <=> Has(last'.effects, "health_check:false")
          /\ (last'.can_connect /\ ~last'.ready)
             => /\ last'.effects = <<>>
                /\ UNCHANGED <<unitVars, envVars, lockVars>>]_vars

\* one failed health check after the start of the workload: the unit is failed
C18_Witness ==
    /\ Proceeded(last)
    /\ Count(last.effects, "health_check:false") = 1
    /\ Has(last.effects, "set_unit_failed")
    /\ ~Has(last.effects, "set_unit_completed")

\* C19: container not reachable.  When container.can_connect() is false at
\* install, start / pebble-ready or upgrade-charm, the handler defers the event
\* and returns: no reconcile step, no workload start, no status, no upgrade
\* state, nothing of the unit's state changes.
C19_UnreachableDefers ==
    [][(/\ last'.handler \in {"install", "start", "upgrade_charm"}
        /\ ~last'.can_connect)
       => /\ last'.effects = <<"defer">>
          /\ UNCHANGED <<unitVars, envVars, lockVars>>]_vars

\* pebble-ready found the container unreachable while a restart was pending
\* and an upgrade in progress
C19_Witness ==
    /\ last.handler = "start"
    /\ ~last.can_connect
    /\ last.effects = <<"defer">>
    /\ should_restart[last.unit]
    /\ ~idle

\* C20: should_restart changes through two transitions only.  It becomes true
\* only in the drift step of a reconcile() of that unit that computed a
\* non-empty diff; it becomes false only in the restart callback of that unit
\* after restart_worker and a health check that answered true.
C20_DefinedTransitions ==
    [][\A u \in Units :
          (should_restart'[u] # should_restart[u])
          => IF should_restart'[u]
             THEN /\ RanReconcile(last') /\ last'.unit = u
                  /\ last'.diff # NotEvaluated /\ last'.diff # {}
                  /\ Has(last'.effects, "set_should_restart")
             ELSE /\ IsCallback(last') /\ last'.unit = u
                  /\ Count(last'.effects, "restart_worker") = 1
                  /\ Has(last'.effects, "health_check:true")
                  /\ Has(last'.effects, "clear_should_restart")]_vars

\* the flag set by a drift was cleared by the callback on the second health
\* check, with the written file in place
C20_Witness ==
    /\ IsCallback(last)
    /\ last.effects = <<"restart_worker", "health_check:false", "health_check:true",
                        "clear_should_restart", "return", "release">>
    /\ ~should_restart[last.unit]
    /\ worker_properties[last.unit] # NoFile

\* the restart callback of u just gave up after its last health check
Exhausted(u) ==
    /\ IsCallback(last) /\ last.unit = u
    /\ Count(last.effects, "health_check:false") = HealthCheckAttempts
    /\ should_restart[u]

\* the restart callback of u just restarted the worker
Restarted(u) ==
    /\ IsCallback(last) /\ last.unit = u
    /\ last.effects = <<"restart_worker">>

\* C21: retry after an unhealthy restart.  A reconcile of a unit whose
\* should_restart is still set finds the context ready and the diff empty:
\* it applies and emits acquire_lock again.  Hence, with a lock service that
\* serves every requester and triggers that keep coming, a unit whose restart
\* exhausted its health checks is restarted again, unless a handler of that
\* unit finds the context not ready.
C21_RetryAfterUnhealthy ==
    /\ [][\A u \in Units :
             (/\ IsReconcile(last') /\ last'.unit = u
              /\ should_restart[u]
              /\ SymDiff(properties, read(u)) = {}
              /\ ~(tls_enabled /\ certificate[u] # NoCert
                               /\ certificate[u] # required_sans[u])
              /\ last'.ready)
             => /\ last'.diff = {}
                /\ Has(last'.effects, "acquire_lock")
                /\ lock'[u] = "REQUESTED"
                /\ should_restart'[u]]_vars
    /\ \A u \in Units :
          Exhausted(u) ~> (Restarted(u) \/ (last.unit = u /\ ~last.ready))

\* after a restart that was never healthy: the file is as desired, the flag
\* is still set, and a reconcile requested the lock again
C21_Witness ==
    /\ IsReconcile(last)
    /\ last.diff = {}
    /\ last.ready
    /\ Has(last.effects, "acquire_lock")
    /\ should_restart[last.unit]
    /\ lock[last.unit] = "REQUESTED"
    /\ worker_properties[last.unit] = File(properties)

\* the SANs of the certificate u holds differ from the SANs u requires
SanMismatch(u) ==
    /\ tls_enabled
    /\ certificate[u] # NoCert
    /\ certificate[u] # required_sans[u]

\* C22: TLS SAN invariant.  With TLS enabled, a reconcile that finds the SANs
\* of the unit's certificate different from the required ones leaves a
\* renewal request outstanding, and while TLS stays enabled the request goes
\* away only with the certificate-available event that installs a
\* certificate for the required SANs.
C22_RenewalOutstanding ==
    [][\A u \in Units :
          /\ (RanReconcile(last') /\ last'.unit = u /\ SanMismatch(u))
             => /\ renewal'[u]
                /\ Has(last'.effects, "certificate_expiring")
          /\ (renewal[u] /\ ~renewal'[u] /\ tls_enabled')
             => /\ certificate[u] = NoCert
                /\ certificate'[u] = required_sans[u]
                /\ last'.handler = "env"]_vars

\* a reconcile found a SAN mismatch: the request is out, no certificate yet
C22_Witness ==
    /\ IsReconcile(last)
    /\ Has(last.effects, "certificate_expiring")
    /\ tls_enabled
    /\ renewal[last.unit]
    /\ certificate[last.unit] = NoCert
    /\ required_sans[last.unit] = "san2"

\* C27: one renewal request per SAN change.  A reconcile emits
\* certificate_expiring only while no request of the unit is outstanding, once,
\* and leaves the cached certificate empty; an outstanding request keeps the
\* certificate empty, so the reconciles that follow until certificate-available
\* emit no further request.
C27_SingleRenewalRequest ==
    /\ \A u \in Units : renewal[u] => certificate[u] = NoCert
    /\ [][\A u \in Units :
             /\ (RanReconcile(last') /\ last'.unit = u
                 /\ Has(last'.effects, "certificate_expiring"))
                => /\ Count(last'.effects, "certificate_expiring") = 1
                   /\ ~renewal[u]
                   /\ renewal'[u]
                   /\ certificate'[u] = NoCert
             /\ (RanReconcile(last') /\ last'.unit = u /\ renewal[u])
                => /\ ~Has(last'.effects, "certificate_expiring")
                   /\ renewal'[u]]_vars

\* the reconcile after the one that requested the renewal, with the required
\* SANs still different from the ones the certificate had: no second request
C27_Witness ==
    /\ IsReconcile(last)
    /\ last.again
    /\ ~Has(last.effects, "certificate_expiring")
    /\ tls_enabled
    /\ renewal[last.unit]
    /\ certificate[last.unit] = NoCert

\* the run of pre_upgrade_check that asked the Kubernetes API for the patch
IsPreUpgradeCheck(l) == l.handler = "pre_upgrade_check"

\* C24: a patch of the rolling-update partition that the API answers with an
\* error ends in a KubernetesClientError after one call (no retry), leaves
\* the partition and the upgrade stack as they were, and carries the cause
\* "juju trust needed" exactly when the status code is 403 and the error's own
\* text otherwise; a patch the API accepts raises nothing.
C24_ApiFailureClassified ==
    [][IsPreUpgradeCheck(last') /\ Has(last'.effects, "set_rolling_update_partition")
       => IF last'.api # ApiOk
          THEN /\ Has(last'.effects, "raise KubernetesClientError")
               /\ Count(last'.effects, "set_rolling_update_partition") = 1
               /\ partition' = partition
               /\ upgrade_stack' = upgrade_stack
               /\ (last'.cause = JujuTrustNeeded) <=> (last'.api = Forbidden)
               /\ last'.api # Forbidden => last'.cause = ApiErrorText(last'.api)
          ELSE /\ ~Has(last'.effects, "raise KubernetesClientError")
               /\ last'.cause = ""]_vars

\* a patch that was answered 500: the error's text is the cause
C24_Witness ==
    /\ IsPreUpgradeCheck(last)
    /\ last.api = 500
    /\ Has(last.effects, "raise KubernetesClientError")
    /\ last.cause = "Internal Server Error"
    /\ idle

\* the handlers that run pre_upgrade_check
RunsUpgradeCheck(l) == l.handler \in {"pre_upgrade_check", "upgrade_charm"}

\* C28: pre_upgrade_check patches the partition only after a passed health
\* check and with an empty upgrade stack, and then to the number of units
\* minus one; with an upgrade in progress it leaves the partition alone, so
\* the check the upgrade handler runs never patches.
C28_PatchOnlyWhenIdle ==
    [][RunsUpgradeCheck(last')
       => /\ Has(last'.effects, "set_rolling_update_partition")
             => /\ idle
                /\ Has(last'.effects, "health_check:true")
                /\ last'.api = ApiOk => partition' = Cardinality(Units) - 1
          /\ ~Has(last'.effects, "set_rolling_update_partition")
             => partition' = partition
          /\ ~idle => partition' = partition
          /\ last'.handler = "upgrade_charm"
             => /\ partition' = partition
                /\ ~Has(last'.effects, "set_rolling_update_partition")]_vars

\* the upgrade handler ran its post-upgrade check, which passed, on a rollout
\* that already reached partition 0: the partition is still 0
C28_Witness ==
    /\ last.handler = "upgrade_charm"
    /\ Has(last.effects, "health_check:true")
    /\ ~idle
    /\ partition = 0
    /\ partition # Cardinality(Units) - 1

\* C26: a reconcile that gets to the drift step on a unit whose configuration
\* file does not exist, with a non-empty desired set, computes the desired set
\* as the diff and sets should_restart; when the cluster is ready it writes
\* the file and requests the lock.
C26_FirstRunDrift ==
    [][\A u \in Units :
          (/\ RanReconcile(last') /\ last'.unit = u
           /\ worker_properties[u] = NoFile
           /\ properties # {}
           /\ ~SansShortCircuit(u))
          => /\ read(u) = {}
             /\ last'.diff = properties
             /\ Has(last'.effects, "set_should_restart")
             /\ should_restart'[u]
             /\ IF last'.ready
                THEN /\ worker_properties'[u] = File(properties)
                     /\ Has(last'.effects, "config_configure")
                     /\ Has(last'.effects, "acquire_lock")
                     /\ lock'[u] = "REQUESTED"
                ELSE /\ worker_properties'[u] = NoFile
                     /\ lock'[u] = lock[u]]_vars

\* the first reconcile of a ready unit: the diff was the whole desired set,
\* the file is written, the lock requested
C26_Witness ==
    /\ IsReconcile(last)
    /\ last.ready
    /\ last.diff = properties
    /\ properties # {}
    /\ worker_properties[last.unit] = File(properties)
    /\ should_restart[last.unit]
    /\ lock[last.unit] = "REQUESTED"

\* what reconcile on unit v would decide in the current state
Decision(v) == <<SansShortCircuit(v), diff(v), DriftStep(v)>>

C29_NoRestartWithoutFlag ==
    [][\A u \in Units :
          /\ (pc[u] = "granted" /\ ~should_restart[u]
              /\ IsCallback(last') /\ last'.unit = u)
             => /\ last'.effects = <<"return", "release">>
                /\ HealthChecks(last') = 0
                /\ restarts'[u] = restarts[u]
                /\ pc'[u] = "idle"
                /\ lock'[u] = "RELEASING"
                /\ ~should_restart'[u]
          /\ restarts'[u] > restarts[u] => should_restart[u]
          /\ (should_restart[u] /\ ~should_restart'[u])
             => Has(last'.effects, "health_check:true")
          /\ (~should_restart[u] /\ should_restart'[u])
             => Has(last'.effects, "set_should_restart")]_vars

\* the callback of a duplicate grant found the flag already cleared and
\* returned at once
C29_Witness ==
    /\ IsCallback(last)
    /\ last.ready
    /\ last.effects = <<"return", "release">>
    /\ ~should_restart[last.unit]
    /\ worker_properties[last.unit] = File(properties)
    /\ lock[last.unit] = "RELEASING"

\* the lines that are in exactly one of two sets
InExactlyOne(D, A) == {l \in DiffLines : (l \in D) # (l \in A)}

\* C23: the diff of the desired and the applied set is their symmetric
\* difference: exchanging the arguments gives the same set, the diff of a set
\* with itself is empty, and the diff is empty exactly when the two sets are
\* equal, whichever side has the extra line.
C23_SymmetricDifference ==
    /\ last.handler = "diff"
       => /\ last.diff = InExactlyOne(properties, read(last.unit))
          /\ (last.diff = {}) <=> (properties = read(last.unit))
          /\ read(last.unit) \ properties # {} => last.diff # {}
          /\ properties \ read(last.unit) # {} => last.diff # {}
    /\ last.handler = "diff_swapped"
       => /\ last.diff = diff(last.unit)
          /\ last.diff = InExactlyOne(properties, read(last.unit))
    /\ last.handler = "diff_self"
       => last.diff = {}

\* the file has a line the desired set lacks and nothing is missing from it:
\* the diff with the arguments exchanged is that line
C23_Witness ==
    /\ last.handler = "diff_swapped"
    /\ properties = {"a=1"}
    /\ read(last.unit) = {"a=1", "c=3"}
    /\ last.diff = {"c=3"}

\* an attempt that found the workload installed, the service present and
\* running
Alive(o) == o.installed /\ o.present /\ o.running

\* C30: a call of active() makes at most 5 attempts; it goes on only while
\* every attempt so far returned false, returns true at the first attempt
\* that finds the workload installed and the service present and running, and
\* returns false once the fifth attempt returned false as well.
C30_BoundedProbe ==
    last.handler = "active"
    => /\ Len(last.obs) \in 1..ActiveAttempts
       /\ \A k \in 1..(Len(last.obs) - 1) : ~Alive(last.obs[k])
       /\ Len(last.obs) = ActiveAttempts => last.done
       /\ last.done
          => /\ last.result \in BOOLEAN
             /\ last.result <=> Alive(last.obs[Len(last.obs)])
             /\ last.result <=> (\E k \in 1..Len(last.obs) : Alive(last.obs[k]))
             /\ ~last.result => Len(last.obs) = ActiveAttempts
       /\ ~last.done
          => /\ Len(last.obs) < ActiveAttempts
             /\ ~Alive(last.obs[Len(last.obs)])

\* five attempts, none of which found the service running in a reachable
\* container: the call returned false
C30_Witness ==
    /\ last.handler = "active"
    /\ last.done
    /\ ~last.result
    /\ Len(last.obs) = ActiveAttempts
    /\ ~last.obs[1].installed
    /\ last.obs[ActiveAttempts].present

\* the key of an entry: what stands before its first "="
KeyOf(l) ==
    CHOOSE k \in {SubSeq(l, 1, n) : n \in 0..Len(l)} :
        /\ \A i \in 1..Len(k) : k[i] # "="
        /\ Len(k) < Len(l) => l[Len(k) + 1] = "="

\* the value of an entry: what stands after its first "="
ValOf(l) == SubSeq(l, Len(KeyOf(l)) + 2, Len(l))

\* the non-empty keys a list of entries names, and the value the last entry
\* with key k gives it
Named(ls) == {KeyOf(ls[i]) : i \in 1..Len(ls)} \ {<<>>}
Binding(ls, k) ==
    LET i == CHOOSE i \in 1..Len(ls) :
                 /\ KeyOf(ls[i]) = k
                 /\ \A j \in (i + 1)..Len(ls) : KeyOf(ls[j]) # k
    IN ValOf(ls[i])

\* the file has exactly one line with key k, and it reads k=v
HasEntry(file, k, v) ==
    LET ls == read_env(file)
    IN /\ \E i \in 1..Len(ls) : ls[i] = k \o <<"=">> \o v
       /\ Cardinality({i \in 1..Len(ls) : KeyOf(ls[i]) = k}) = 1

\* C31: after set_environment(vars) the file has every non-empty key of vars
\* with the value vars gives it, every key that was in the file and is not
\* named in vars with the value it had, and no other entry (none with an
\* empty key; the key ends at the first "="); the same call once more leaves
\* the file as it is.
C31_EnvironmentMerge ==
    /\ last.handler \in {"set_environment", "set_environment_again"}
       => LET old == read_env(last.before)
              out == read_env(last.after)
          IN /\ \A k \in Named(last.vars) :
                    HasEntry(last.after, k, Binding(last.vars, k))
             /\ \A k \in Named(old) \ Named(last.vars) :
                    HasEntry(last.after, k, Binding(old, k))
             /\ Named(out) = Named(old) \cup Named(last.vars)
             /\ \A i \in 1..Len(out) :
                    KeyOf(out[i]) = <<>> => out[i] = <<>>
    /\ last.handler = "set_environment_again"
       => last.after = last.before

\* the file had A=A and AA=; set_environment(["A==", "=A"]) kept AA, gave A
\* the value "=" and dropped the entry without a key
C31_Witness ==
    /\ last.handler = "set_environment"
    /\ last.before = File(<<"A", "=", "A", NL, "A", "A", "=", NL>>)
    /\ last.vars = << <<"A", "=", "=">>, <<"=", "A">> >>
    /\ last.after = File(<<"A", "=", "=", NL, "A", "A", "=", NL>>)

=============================================================================
